---- MODULE Spec2Model ----
(***************************************************************************)
(* Question-answering pipeline of jin_sanzhen_kg/QA_system.py:             *)
(* intent parsing (call_llm_for_parse), entity normalization               *)
(* (_best_match, normalize_entities), query dispatch                       *)
(* (build_and_run_query), answer synthesis (call_llm_for_answer,           *)
(* call_llm_for_answer_no_kg) and the orchestrator (qa_endpoint).          *)
(*                                                                         *)
(* Entity names are sequences of characters; a character is a natural      *)
(* number (its code point), so that Python's string order is the           *)
(* lexicographic order of the sequences.                                   *)
(***************************************************************************)
EXTENDS Integers, Sequences, FiniteSets, TLC

VARIABLES
    \* _best_match applied to one mention and one vocabulary at every cutoff
    \* of Cutoffs (SpecMatch)
    name, candidates, matchPc, matchAt,
    \* normalize_entities applied to an intent, and again to its own result
    \* (SpecNorm)
    vocab, intent, normPc, normOnce, normTwice,
    \* call_llm_for_parse applied to a question and a reply of the generation
    \* service (SpecParse)
    parseQuestion, parseReply, parsePc, parseResult,
    \* build_and_run_query applied to a normalized intent (SpecDispatch)
    dispIntent, dispMaxPlans, dispStore, dispPc, dispResult,
    \* call_llm_for_answer and call_llm_for_answer_no_kg applied to the same
    \* query type, records and reply of the generation service (SpecAnswer)
    ansQueryType, ansRecords, ansReply, ansPc, ansKg, ansNoKg,
    \* the server (Spec): the vocabulary cache of the process, and the request
    \* qa_endpoint is processing with its locals
    cache,          \* the lru_cache of get_all_diseases / _combos / _points
    nreq,           \* requests received so far
    surfaced,       \* history: <<exception, HTTP status>> for the failures of
                    \* build_and_run_query surfaced so far
    pc,             \* where qa_endpoint stands
    req,            \* the request: question, use_kg, options
    warm,           \* the categories that were cached when the request arrived
    parsed,         \* the intent call_llm_for_parse returned
    acc,            \* normalize_entities' norm lists and suggest so far
    query,          \* the query text and parameters given to run_cypher
    records,        \* the records run_cypher returned
    calls,          \* the calls of this request, in order: the functions
                    \* qa_endpoint called ("fn") and their calls to the
                    \* generation service ("llm") and the graph store ("graph")
    resp,           \* the response, once the request is done
    \* the lru_cache of get_all_* under requests served by concurrent threads
    \* (SpecThreads)
    lruCache,       \* per category: whether the cache holds the vocabulary
    thread,         \* per thread: where it stands in normalize_entities
    started,        \* per thread: the requests it has started
    reads           \* history: per category, the graph.run calls issued

matchVars == <<name, candidates, matchPc, matchAt>>
normVars == <<vocab, intent, normPc, normOnce, normTwice>>
parseVars == <<parseQuestion, parseReply, parsePc, parseResult>>
dispVars == <<dispIntent, dispMaxPlans, dispStore, dispPc, dispResult>>
reqVars == <<pc, req, warm, parsed, acc, query, records, calls, resp>>
serverVars == <<cache, nreq, surfaced, reqVars>>
ansVars == <<ansQueryType, ansRecords, ansReply, ansPc, ansKg, ansNoKg>>
thrVars == <<lruCache, thread, started, reads>>
vars == <<matchVars, normVars, parseVars, dispVars, ansVars, serverVars, thrVars>>

(***************************************************************************)
(* Bounds of the model.                                                    *)
(***************************************************************************)
MaxLen == 4

\* the alphabet of entity names: two characters
Chars == {1, 2}

RECURSIVE StringsOfLen(_)
StringsOfLen(n) ==
    IF n = 0 THEN {<<>>}
    ELSE {Append(s, c) : s \in StringsOfLen(n - 1), c \in Chars}

Strings == UNION {StringsOfLen(n) : n \in 0..MaxLen}

\* Python's None for an Optional[str]; no string is a sequence of length 1
\* holding 0, since 0 is not a character.
None == <<0>>

Min(a, b) == IF a <= b THEN a ELSE b

(***************************************************************************)
(* difflib.SequenceMatcher(None, a, b).ratio(), for sequences shorter than *)
(* 200 elements (no automatic junk heuristic applies below that length).   *)
(* Offsets are 0-based as in Python: a[i] of the source is a[i + 1] here.  *)
(***************************************************************************)
RECURSIVE Run(_, _, _, _, _, _)
\* length of the common run of a[i:ahi] and b[j:bhi] starting at i and j
Run(a, b, i, j, ahi, bhi) ==
    IF i < ahi /\ j < bhi /\ a[i + 1] = b[j + 1]
    THEN 1 + Run(a, b, i + 1, j + 1, ahi, bhi)
    ELSE 0

\* SequenceMatcher.find_longest_match(alo, ahi, blo, bhi): the longest
\* matching block; of those the one starting earliest in a, and of those the
\* one starting earliest in b; (alo, blo, 0) when nothing matches.
find_longest_match(a, b, alo, ahi, blo, bhi) ==
    LET starts == {p \in (alo..(ahi - 1)) \X (blo..(bhi - 1)) : a[p[1] + 1] = b[p[2] + 1]}
        size == [p \in starts |-> Run(a, b, p[1], p[2], ahi, bhi)]
    IN  IF starts = {} THEN [i |-> alo, j |-> blo, k |-> 0]
        ELSE LET best == CHOOSE p \in starts :
                     \A q \in starts :
                         \/ size[p] > size[q]
                         \/ /\ size[p] = size[q]
                            /\ \/ p[1] < q[1]
                               \/ p[1] = q[1] /\ p[2] <= q[2]
             IN  [i |-> best[1], j |-> best[2], k |-> size[best]]

RECURSIVE Matches(_, _, _, _, _, _)
\* sum of the sizes of SequenceMatcher.get_matching_blocks()
Matches(a, b, alo, ahi, blo, bhi) ==
    LET m == find_longest_match(a, b, alo, ahi, blo, bhi)
    IN  IF m.k = 0 THEN 0
        ELSE m.k
             + (IF alo < m.i /\ blo < m.j
                THEN Matches(a, b, alo, m.i, blo, m.j) ELSE 0)
             + (IF m.i + m.k < ahi /\ m.j + m.k < bhi
                THEN Matches(a, b, m.i + m.k, ahi, m.j + m.k, bhi) ELSE 0)

\* ratio() as the fraction num / den (1.0 for two empty sequences)
Ratio(a, b) ==
    IF Len(a) + Len(b) = 0 THEN [num |-> 1, den |-> 1]
    ELSE [num |-> 2 * Matches(a, b, 0, Len(a), 0, Len(b)), den |-> Len(a) + Len(b)]

\* a cutoff is a number of hundredths: ratio >= cutoff / 100
RatioAtLeast(r, cutoff) == 100 * r.num >= cutoff * r.den
RatioGreater(r, s) == r.num * s.den > s.num * r.den
RatioEqual(r, s) == r.num * s.den = s.num * r.den

\* Python's s > t on strings
RECURSIVE StrGreater(_, _)
StrGreater(s, t) ==
    IF s = <<>> THEN FALSE
    ELSE IF t = <<>> THEN TRUE
    ELSE IF Head(s) # Head(t) THEN Head(s) > Head(t)
    ELSE StrGreater(Tail(s), Tail(t))

(***************************************************************************)
(* difflib.get_close_matches(word, possibilities, n, cutoff): the          *)
(* possibilities x with SequenceMatcher(seq1 = x, seq2 = word).ratio() >=  *)
(* cutoff, the n best, sorted by (score, x) descending.  The               *)
(* real_quick_ratio() and quick_ratio() pre-filters are upper bounds of    *)
(* ratio() and remove nothing that ratio() keeps.                          *)
(***************************************************************************)
\* (score, x) > (score', y) on Python tuples; score maps each name to its ratio
Before(x, y, score) ==
    \/ RatioGreater(score[x], score[y])
    \/ RatioEqual(score[x], score[y]) /\ StrGreater(x, y)

RECURSIVE SortedBest(_, _, _)
\* heapq.nlargest(n, result): the n largest of S, largest first
SortedBest(S, score, n) ==
    IF S = {} \/ n = 0 THEN <<>>
    ELSE LET top == CHOOSE x \in S : \A y \in S \ {x} : Before(x, y, score)
         IN  <<top>> \o SortedBest(S \ {top}, score, n - 1)

get_close_matches(word, possibilities, n, cutoff) ==
    LET score == [x \in possibilities |-> Ratio(x, word)]
    IN  SortedBest({x \in possibilities : RatioAtLeast(score[x], cutoff)}, score, n)

(***************************************************************************)
(* _best_match(name, candidates, cutoff, top_n) -> (best | None, res)      *)
(***************************************************************************)
TopN == 5
DefaultCutoff == 70

\* _best_match with the re-check of line 113 inverted (ratio > cutoff)
best_match_inverted(nm, cands, cutoff, top_n) ==
    IF nm = <<>> \/ cands = {} THEN [best |-> None, res |-> <<>>]
    ELSE LET res == get_close_matches(nm, cands, top_n, cutoff)
         IN  IF res = <<>> THEN [best |-> None, res |-> <<>>]
             ELSE IF RatioGreater(Ratio(nm, res[1]), [num |-> cutoff, den |-> 100])
                  THEN [best |-> None, res |-> res]
                  ELSE [best |-> res[1], res |-> res]

\* _best_match adopting the last of the cleared candidates (res[-1])
best_match_last(nm, cands, cutoff, top_n) ==
    IF nm = <<>> \/ cands = {} THEN [best |-> None, res |-> <<>>]
    ELSE LET res == get_close_matches(nm, cands, top_n, cutoff)
         IN  IF res = <<>> THEN [best |-> None, res |-> <<>>]
             ELSE IF ~RatioAtLeast(Ratio(nm, res[Len(res)]), cutoff)
                  THEN [best |-> None, res |-> res]
                  ELSE [best |-> res[Len(res)], res |-> res]

best_match(nm, cands, cutoff, top_n) ==
    IF nm = <<>> \/ cands = {} THEN [best |-> None, res |-> <<>>]
    ELSE LET res == get_close_matches(nm, cands, top_n, cutoff)
         IN  IF res = <<>> THEN [best |-> None, res |-> <<>>]
             ELSE IF ~RatioAtLeast(Ratio(nm, res[1]), cutoff)
                  THEN [best |-> None, res |-> res]
                  ELSE [best |-> res[1], res |-> res]

(***************************************************************************)
(* normalize_entities(parsed) -> (normalized, suggest)                     *)
(*                                                                         *)
(* An intent is a record [query_type, diseases, combos, points]; the three *)
(* entity lists are sequences of names.  The suggestion report is          *)
(* [unmatched, candidates]: unmatched is the list of {type, name} entries, *)
(* candidates the dict name -> category -> list, held as the set of its    *)
(* (name, category, list) entries.  The report with both parts empty is    *)
(* the {} the function returns when nothing was recorded.                  *)
(***************************************************************************)
EmptySuggest == [unmatched |-> <<>>, candidates |-> {}]

\* suggest["candidates"].setdefault(nm, {})[key] = cands
SetCandidates(cs, nm, key, cands) ==
    {e \in cs : ~(e.name = nm /\ e.category = key)}
        \cup {[name |-> nm, category |-> key, cands |-> cands]}

\* the loop body filtering: an unmatched mention is reported but not appended
RecordMatch_filter(a, d, type, key, m) ==
    IF m.best # None
    THEN [a EXCEPT ![key] = Append(@, m.best),
                     !.candidates = IF Len(m.res) > 1
                                    THEN SetCandidates(@, d, key, m.res) ELSE @]
    ELSE [a EXCEPT !.unmatched = Append(@, [type |-> type, name |-> d]),
                     !.candidates = IF m.res # <<>>
                                    THEN SetCandidates(@, d, key, m.res) ELSE @]

\* the two branches of a loop body of normalize_entities, for the mention d
\* and m = _best_match(d, all, cutoff = 0.7); a holds the three norm lists
\* (norm_d, norm_c, norm_p, by key) and the suggest dict so far
RecordMatch(a, d, type, key, m) ==
    IF m.best # None
    THEN [a EXCEPT ![key] = Append(@, m.best),
                     !.candidates = IF Len(m.res) > 1
                                    THEN SetCandidates(@, d, key, m.res) ELSE @]
    ELSE [a EXCEPT ![key] = Append(@, d),
                     !.unmatched = Append(@, [type |-> type, name |-> d]),
                     !.candidates = IF m.res # <<>>
                                    THEN SetCandidates(@, d, key, m.res) ELSE @]

\* the iterations of one loop: each mention of list, in order, with the
\* loop's vocabulary, unmatched type and dict key
Loop(list, all, type, key) ==
    [i \in 1..Len(list) |-> [mention |-> list[i], all |-> all, type |-> type, key |-> key]]

RECURSIVE RunLoops(_, _)
\* the iterations of the three loops, run in order
RunLoops(iterations, a) ==
    IF iterations = <<>> THEN a
    ELSE RunLoops(Tail(iterations),
                  RecordMatch(a, Head(iterations).mention, Head(iterations).type,
                              Head(iterations).key,
                              best_match(Head(iterations).mention, Head(iterations).all,
                                         DefaultCutoff, TopN)))

\* normalized = p.copy() with the three lists replaced; suggest = {} when
\* nothing was recorded
NormalizeResult(p, a) ==
    [normalized |-> [p EXCEPT !.diseases = a.diseases, !.combos = a.combos,
                                   !.points = a.points],
     suggest |-> [unmatched |-> a.unmatched, candidates |-> a.candidates]]

normalize_entities(p, all_d, all_c, all_p) ==
    NormalizeResult(p,
        RunLoops(Loop(p.diseases, all_d, "disease", "diseases")
                     \o Loop(p.combos, all_c, "combo", "combos")
                     \o Loop(p.points, all_p, "point", "points"),
                 [diseases |-> <<>>, combos |-> <<>>, points |-> <<>>,
                  unmatched |-> <<>>, candidates |-> {}]))

(***************************************************************************)
(* The graph store's node names (the three vocabularies), and the mentions *)
(* an intent is drawn from.                                                *)
(***************************************************************************)
GraphDiseases == {<<1, 1, 2>>, <<1, 1, 2, 1>>, <<2, 2, 1, 2>>}
GraphCombos == {<<1, 1, 2, 1>>, <<1, 2, 2>>}
GraphPoints == {<<1, 2>>, <<1, 1, 2, 2>>, <<1, 2, 1, 1>>, <<2, 2, 1, 2>>}

MentionPool == {<<>>, <<1, 1, 2>>, <<1, 2>>, <<1, 2, 2, 2>>, <<2, 1>>}

QueryTypes == {"disease_to_plans", "combo_to_diseases", "disease_combo_to_effect",
               "combo_to_points", "disease_to_point_summary", "unknown"}

MaxMentions == 2

RECURSIVE ListsOfLen(_, _)
ListsOfLen(S, n) ==
    IF n = 0 THEN {<<>>}
    ELSE {Append(l, x) : l \in ListsOfLen(S, n - 1), x \in S}

MentionLists == UNION {ListsOfLen(MentionPool, n) : n \in 0..MaxMentions}

\* the intents with at most MaxMentions mentions in all
ListsUpTo(n) == {l \in MentionLists : Len(l) <= n}

Intents ==
    UNION {UNION {{[query_type |-> qt, diseases |-> d, combos |-> c, points |-> p] :
                      qt \in {"disease_to_plans", "unknown"},
                      p \in ListsUpTo(MaxMentions - Len(d) - Len(c))} :
                  c \in ListsUpTo(MaxMentions - Len(d))} :
           d \in MentionLists}

(***************************************************************************)
(* call_llm_for_parse(question, history) -> intent                         *)
(*                                                                         *)
(* A question is a sequence of tokens: whitespace, one of the keywords the *)
(* fallback rules look for, or other text.                                 *)
(*   SP            whitespace                                              *)
(*   NIE_SAN_ZHEN  the combo name of the first rule (line 345)             *)
(*   SHENME_BING, NAXIE_BING, SHIYINGZHENG  "which diseases", "what        *)
(*                 diseases", "indications" (line 345)                     *)
(*   NAO_CU_ZHONG  "stroke" (line 352)                                     *)
(*   OTHER         any other text                                          *)
(*                                                                         *)
(* A reply of the generation service is an exception ("raise"), a message  *)
(* without content ("none") or a text, held as its lines.  A line is a     *)
(* code fence (it starts with three backquotes) or carries a document doc: *)
(* text that is not JSON ("invalid"), a JSON value that is no object       *)
(* ("array", "null") or a JSON object, a function from its keys to their   *)
(* values.  The JSON null of query_type is the value NullQueryType.        *)
(***************************************************************************)
Tokens == {"SP", "NIE_SAN_ZHEN", "SHENME_BING", "NAXIE_BING", "SHIYINGZHENG",
           "NAO_CU_ZHONG", "OTHER"}

\* the names the fallback rules return (lines 349 and 355)
NieSanZhen == <<1, 2, 2>>
NaoCuZhongHouYiZheng == <<1, 1, 2, 1>>

NullQueryType == "null"
EmptyDict == [k \in {} |-> <<>>]
IntentKeys == {"query_type", "diseases", "combos", "points"}

\* the question taken as it is, not stripped
Strip_missing(q) == q

\* str.strip() on a question
Strip(q) ==
    LET idx == {i \in 1..Len(q) : q[i] # "SP"}
    IN  IF idx = {} THEN <<>>
        ELSE SubSeq(q, CHOOSE i \in idx : \A j \in idx : i <= j,
                       CHOOSE i \in idx : \A j \in idx : i >= j)

\* "<keyword>" in q
Contains(q, token) == \E i \in 1..Len(q) : q[i] = token

\* a setdefault that assigns the default whether or not the key is there
SetDefault_overwrite(dict, key, default) ==
    [k \in DOMAIN dict \cup {key} |-> IF k = key THEN default ELSE dict[k]]

\* dict.setdefault(key, default)
SetDefault(dict, key, default) ==
    IF key \in DOMAIN dict THEN dict
    ELSE [k \in DOMAIN dict \cup {key} |-> IF k = key THEN default ELSE dict[k]]

\* lines 326-332: a text starting with a fence loses its first line, and then
\* its last line if that is a fence too
StripFence(lines) ==
    IF lines # <<>> /\ lines[1].fence
    THEN LET rest == Tail(lines)
         IN  IF rest # <<>> /\ rest[Len(rest)].fence
             THEN SubSeq(rest, 1, Len(rest) - 1) ELSE rest
    ELSE lines

\* the try block, lines 318-339: the exception it ends with ("none" when it
\* returns) and the dict it returns
ParseTry(reply) ==
    IF reply.kind = "raise" THEN [exc |-> "APIError", value |-> EmptyDict]
    ELSE IF reply.kind = "none" THEN [exc |-> "AttributeError", value |-> EmptyDict]
    ELSE LET text == StripFence(reply.lines)
         IN  IF Len(text) # 1 \/ text[1].fence \/ text[1].doc.type = "invalid"
             THEN [exc |-> "JSONDecodeError", value |-> EmptyDict]
             ELSE IF text[1].doc.type # "object"
             THEN [exc |-> "AttributeError", value |-> EmptyDict]
             ELSE [exc |-> "none",
                   value |-> SetDefault(SetDefault(SetDefault(SetDefault(
                                 text[1].doc.value, "query_type", "disease_to_plans"),
                                 "diseases", <<>>), "combos", <<>>), "points", <<>>)]

\* the keyword rules with the stroke rule tried first
ParseFallback_stroke_first(question) ==
    LET q == Strip(question)
    IN  IF Contains(q, "NAO_CU_ZHONG")
        THEN [query_type |-> "disease_to_plans", diseases |-> <<NaoCuZhongHouYiZheng>>,
              combos |-> <<>>, points |-> <<>>]
        ELSE IF /\ Contains(q, "NIE_SAN_ZHEN")
                /\ \/ Contains(q, "SHENME_BING")
                   \/ Contains(q, "NAXIE_BING")
                   \/ Contains(q, "SHIYINGZHENG")
        THEN [query_type |-> "combo_to_diseases", diseases |-> <<>>,
              combos |-> <<NieSanZhen>>, points |-> <<>>]
        ELSE [query_type |-> "unknown", diseases |-> <<>>, combos |-> <<>>, points |-> <<>>]

\* the except block, lines 340-364: the keyword rules, in order
ParseFallback(question) ==
    LET q == Strip(question)
    IN  IF /\ Contains(q, "NIE_SAN_ZHEN")
           /\ \/ Contains(q, "SHENME_BING")
              \/ Contains(q, "NAXIE_BING")
              \/ Contains(q, "SHIYINGZHENG")
        THEN [query_type |-> "combo_to_diseases", diseases |-> <<>>,
              combos |-> <<NieSanZhen>>, points |-> <<>>]
        ELSE IF Contains(q, "NAO_CU_ZHONG")
        THEN [query_type |-> "disease_to_plans", diseases |-> <<NaoCuZhongHouYiZheng>>,
              combos |-> <<>>, points |-> <<>>]
        ELSE [query_type |-> "unknown", diseases |-> <<>>, combos |-> <<>>, points |-> <<>>]

\* "except Exception" (line 340) catches every exception of the try block
ParseCatches(exc) == TRUE

\* a handler that catches the JSON decoding error only
ParseResult_narrow(question, try) ==
    IF try.exc = "none" THEN [raised |-> FALSE, value |-> try.value]
    ELSE IF try.exc = "JSONDecodeError"
    THEN [raised |-> FALSE, value |-> ParseFallback(question)]
    ELSE [raised |-> TRUE, value |-> EmptyDict]

\* what call_llm_for_parse does with the outcome of its try block
ParseResult(question, try) ==
    IF try.exc = "none" THEN [raised |-> FALSE, value |-> try.value]
    ELSE IF ParseCatches(try.exc)
    THEN [raised |-> FALSE, value |-> ParseFallback(question)]
    ELSE [raised |-> TRUE, value |-> EmptyDict]

call_llm_for_parse(question, reply) == ParseResult(question, ParseTry(reply))

(***************************************************************************)
(* The replies of the generation service to the parse request.             *)
(***************************************************************************)
LlmQueryTypes == QueryTypes \cup {"point_to_combos", NullQueryType}

\* the entity lists of a reply
ReplyLists == {<<>>, <<<<1, 1, 2>>>>}

FullObjects ==
    {[query_type |-> qt, diseases |-> d, combos |-> c, points |-> p] :
        qt \in LlmQueryTypes, d \in ReplyLists, c \in ReplyLists, p \in ReplyLists}

Restrict(f, K) == [k \in K |-> f[k]]

JsonObjects == {Restrict(f, K) : f \in FullObjects, K \in SUBSET IntentKeys}

Docs ==
    {[type |-> "object", value |-> o] : o \in JsonObjects}
        \cup {[type |-> t, value |-> EmptyDict] : t \in {"array", "null", "invalid"}}

FenceLine == [fence |-> TRUE, doc |-> [type |-> "invalid", value |-> EmptyDict]]
DocLine(doc) == [fence |-> FALSE, doc |-> doc]
Prose == [type |-> "invalid", value |-> EmptyDict]

\* the texts a document comes in: bare, fenced, fenced without the closing
\* fence, followed by a fence, preceded by prose
Layouts(doc) ==
    {<<DocLine(doc)>>, <<FenceLine, DocLine(doc), FenceLine>>, <<FenceLine, DocLine(doc)>>,
     <<DocLine(doc), FenceLine>>, <<DocLine(Prose), FenceLine, DocLine(doc), FenceLine>>}

TextReplies ==
    {[kind |-> "text", lines |-> l] : l \in (UNION {Layouts(d) : d \in Docs}) \cup {<<>>, <<FenceLine>>}}

FailedReplies ==
    {[kind |-> k, lines |-> <<>>] : k \in {"raise", "none"}}

ParseReplies == TextReplies \cup FailedReplies

MaxQuestionLen == 3

RECURSIVE QuestionsOfLen(_)
QuestionsOfLen(n) ==
    IF n = 0 THEN {<<>>}
    ELSE {Append(q, t) : q \in QuestionsOfLen(n - 1), t \in Tokens}

Questions == UNION {QuestionsOfLen(n) : n \in 0..MaxQuestionLen}

\* a question for each outcome of the fallback rules
SomeQuestions ==
    {<<"OTHER">>, <<"NAO_CU_ZHONG", "OTHER">>, <<"NIE_SAN_ZHEN", "SHENME_BING">>}

ParseIdle ==
    /\ parseQuestion = <<>>
    /\ parseReply = [kind |-> "raise", lines |-> <<>>]
    /\ parsePc = "idle"
    /\ parseResult = [raised |-> FALSE, value |-> EmptyDict]

(***************************************************************************)
(* build_and_run_query(parsed, max_plans) -> (cypher, records)             *)
(*                                                                         *)
(* The text of a query is held as the name of its template: the text of    *)
(* each branch is a constant of the source.  store is what graph.run does  *)
(* if it is called: it fails, or the graph holds store.rows matching rows; *)
(* a record is its row number.  The result is the exception the function   *)
(* ends with ("none" when it returns), the query it gave to run_cypher     *)
(* (ran) and what it returns.                                              *)
(***************************************************************************)
DefaultMaxPlans == 10

NoParams == [k \in {} |-> 0]
NoQuery == [cypher |-> "", params |-> NoParams]

\* the rows of a result
Rows(n) == [i \in 1..n |-> i]

\* run_cypher catching the failure of graph.run and returning no record
RunCypher_swallow(cql, params, limited, store) ==
    [exc |-> "none", ran |-> TRUE, cypher |-> cql, params |-> params,
     records |-> IF ~store.ok THEN <<>>
                 ELSE Rows(IF limited THEN Min(store.rows, params.limit) ELSE store.rows)]

\* run_cypher(cql, params), lines 470-474; limited says whether the template
\* ends with LIMIT $limit
RunCypher(cql, params, limited, store) ==
    IF ~store.ok
    THEN [exc |-> "StoreError", ran |-> TRUE, cypher |-> cql, params |-> params,
          records |-> <<>>]
    ELSE [exc |-> "none", ran |-> TRUE, cypher |-> cql, params |-> params,
          records |-> Rows(IF limited THEN Min(store.rows, params.limit) ELSE store.rows)]

\* the ValueError raised once the query has been run
RaiseValueError_late ==
    [exc |-> "ValueError", ran |-> TRUE, cypher |-> "", params |-> NoParams,
     records |-> <<>>]

\* raise ValueError(...), before any query is built
RaiseValueError ==
    [exc |-> "ValueError", ran |-> FALSE, cypher |-> "", params |-> NoParams,
     records |-> <<>>]

\* the branch rejecting a disease that is not a name of the graph
DiseaseToPlans_members(diseases, max_plans, store) ==
    IF diseases = <<>> \/ diseases[1] \notin GraphDiseases THEN RaiseValueError
    ELSE RunCypher("disease_to_plans", [disease_name |-> diseases[1], limit |-> max_plans],
                   TRUE, store)

\* the branch taking the last disease of the list, diseases[-1]
DiseaseToPlans_last(diseases, max_plans, store) ==
    IF diseases = <<>> THEN RaiseValueError
    ELSE RunCypher("disease_to_plans",
                   [disease_name |-> diseases[Len(diseases)], limit |-> max_plans],
                   TRUE, store)

\* lines 491-555
DiseaseToPlans(diseases, max_plans, store) ==
    IF diseases = <<>> THEN RaiseValueError
    ELSE RunCypher("disease_to_plans", [disease_name |-> diseases[1], limit |-> max_plans],
                   TRUE, store)

\* the branch with the combo name written into the query text (an f-string)
\* instead of bound as $combo_name
ComboToDiseases_interpolated(combos, store) ==
    IF combos = <<>> THEN RaiseValueError
    ELSE RunCypher("combo_to_diseases " \o ToString(combos[1]), NoParams, FALSE, store)

\* lines 558-574
ComboToDiseases(combos, store) ==
    IF combos = <<>> THEN RaiseValueError
    ELSE RunCypher("combo_to_diseases", [combo_name |-> combos[1]], FALSE, store)

\* the branch with "and" for "or" in its test: diseases[0] or combos[0] then
\* raises IndexError when one of the two lists is empty
DiseaseComboToEffect_and(diseases, combos, max_plans, store) ==
    IF diseases = <<>> /\ combos = <<>> THEN RaiseValueError
    ELSE IF diseases = <<>> \/ combos = <<>>
    THEN [exc |-> "IndexError", ran |-> FALSE, cypher |-> "", params |-> NoParams,
          records |-> <<>>]
    ELSE RunCypher("disease_combo_to_effect",
                   [disease_name |-> diseases[1], combo_name |-> combos[1],
                    limit |-> max_plans],
                   TRUE, store)

\* lines 577-605
DiseaseComboToEffect(diseases, combos, max_plans, store) ==
    IF diseases = <<>> \/ combos = <<>> THEN RaiseValueError
    ELSE RunCypher("disease_combo_to_effect",
                   [disease_name |-> diseases[1], combo_name |-> combos[1],
                    limit |-> max_plans],
                   TRUE, store)

\* lines 610-639: the points with their needle_method
ComboToPoints(combos, store) ==
    IF combos = <<>> THEN RaiseValueError
    ELSE RunCypher("combo_to_points_needle_method", [combo_name |-> combos[1]], FALSE, store)

\* lines 642-662
DiseaseToPointSummary(diseases, store) ==
    IF diseases = <<>> THEN RaiseValueError
    ELSE RunCypher("disease_to_point_summary", [disease_name |-> diseases[1]], FALSE, store)

\* lines 665-681: the second combo_to_points branch, the names only
ComboToPointsNames(combos, store) ==
    IF combos = <<>> THEN RaiseValueError
    ELSE RunCypher("combo_to_points_names", [combo_name |-> combos[1]], FALSE, store)

\* the chain with the second combo_to_points branch (lines 665-681) moved
\* before the first one
build_and_run_query_names_first(p, max_plans, store) ==
    IF p.query_type = "disease_to_plans"
    THEN DiseaseToPlans(p.diseases, max_plans, store)
    ELSE IF p.query_type = "combo_to_diseases"
    THEN ComboToDiseases(p.combos, store)
    ELSE IF p.query_type = "disease_combo_to_effect"
    THEN DiseaseComboToEffect(p.diseases, p.combos, max_plans, store)
    ELSE IF p.query_type = "combo_to_points"
    THEN ComboToPointsNames(p.combos, store)
    ELSE IF p.query_type = "disease_to_point_summary"
    THEN DiseaseToPointSummary(p.diseases, store)
    ELSE IF p.query_type = "combo_to_points"
    THEN ComboToPoints(p.combos, store)
    ELSE [exc |-> "none", ran |-> FALSE, cypher |-> "", params |-> NoParams,
          records |-> <<>>]

\* the if / elif chain of lines 485-685, in its order
build_and_run_query(p, max_plans, store) ==
    IF p.query_type = "disease_to_plans"
    THEN DiseaseToPlans(p.diseases, max_plans, store)
    ELSE IF p.query_type = "combo_to_diseases"
    THEN ComboToDiseases(p.combos, store)
    ELSE IF p.query_type = "disease_combo_to_effect"
    THEN DiseaseComboToEffect(p.diseases, p.combos, max_plans, store)
    ELSE IF p.query_type = "combo_to_points"
    THEN ComboToPoints(p.combos, store)
    ELSE IF p.query_type = "disease_to_point_summary"
    THEN DiseaseToPointSummary(p.diseases, store)
    ELSE IF p.query_type = "combo_to_points"
    THEN ComboToPointsNames(p.combos, store)
    ELSE [exc |-> "none", ran |-> FALSE, cypher |-> "", params |-> NoParams,
          records |-> <<>>]

MaxRecords == 2

\* what the graph store does with a query
StoreOutcomes ==
    {[ok |-> FALSE, rows |-> 0]} \cup {[ok |-> TRUE, rows |-> n] : n \in 0..MaxRecords}

DispIdle ==
    /\ dispIntent = [query_type |-> "unknown", diseases |-> <<>>, combos |-> <<>>,
                     points |-> <<>>]
    /\ dispMaxPlans = DefaultMaxPlans
    /\ dispStore = [ok |-> TRUE, rows |-> 0]
    /\ dispPc = "idle"
    /\ dispResult = RaiseValueError

(***************************************************************************)
(* call_llm_for_answer and call_llm_for_answer_no_kg                       *)
(*                                                                         *)
(* A text is the sequence of its code points; the fixed strings are those  *)
(* of the source.  llm is what the generation service does if it is        *)
(* called: it fails ("raise"), returns a message without content ("none")  *)
(* or returns llm.text.  The result says whether the service was called    *)
(* and what the function returns: a text, or None (none = TRUE).           *)
(***************************************************************************)
UnknownAnswerNoKg ==
    <<24403, 21069, 26080, 27861, 20174, 38382, 39064, 20013, 25552, 21462,
      20986, 26126, 30830, 30340, 30142, 30149, 12289, 38771, 19977, 38024,
      32452, 21512, 25110, 31348, 20301, 20449, 24687, 65292, 24314, 35758,
      20320, 34917, 20805, 26356, 20855, 20307, 30340, 25551, 36848, 65292,
      20363, 22914, 8220, 33041, 21330, 20013, 21518, 36951, 30151, 24120,
      29992, 21738, 20123, 38771, 19977, 38024, 26041, 26696, 65311, 8221,
      12290>>

UnknownAnswerKg ==
    <<24403, 21069, 26080, 27861, 20174, 38382, 39064, 20013, 25552, 21462,
      20986, 26126, 30830, 30340, 30142, 30149, 12289, 38771, 19977, 38024,
      32452, 21512, 25110, 31348, 20301, 20449, 24687, 65292, 24314, 35758,
      20320, 34917, 20805, 26356, 20855, 20307, 30340, 25551, 36848, 65292,
      20363, 22914, 8220, 33041, 21330, 20013, 21518, 36951, 30151, 24120,
      29992, 21738, 20123, 38771, 19977, 38024, 26041, 26696, 65311, 8221,
      12290>>

NotFoundAnswer ==
    <<22312, 30446, 21069, 24050, 26500, 24314, 30340, 38771, 19977, 38024,
      30693, 35782, 22270, 35889, 20013, 65292, 26242, 26410, 26816, 32034,
      21040, 19982, 35813, 38382, 39064, 30452, 25509, 23545, 24212, 30340,
      32467, 26500, 21270, 35760, 24405, 65292, 21487, 33021, 26159, 30456,
      20851, 25991, 29486, 23578, 26410, 25910, 24405, 25110, 20173, 22312,
      25972, 29702, 20013, 12290, 35831, 32467, 21512, 26435, 23041, 25945,
      26448, 21644, 20020, 24202, 25351, 21335, 36827, 19968, 27493, 26597,
      35777, 65292, 26412, 31995, 32479, 20165, 29992, 20110, 31185, 30740,
      19982, 25945, 23398, 21442, 32771, 12290>>

ApologyNoKg ==
    <<24403, 21069, 22312, 26410, 35843, 29992, 30693, 35782, 22270, 35889,
      30340, 21069, 25552, 19979, 29983, 25104, 31572, 26696, 22833, 36133,
      65292, 24314, 35758, 31245, 21518, 37325, 35797, 25110, 22312, 26377,
      32, 75, 71, 32, 27169, 24335, 19979, 26597, 30475, 22238, 31572,
      12290>>

\* the grounded apology with the text of the other mode
ApologyKg_same == ApologyNoKg

ApologyKg ==
    <<31995, 32479, 24050, 25104, 21151, 20174, 30693, 35782, 22270, 35889,
      20013, 26816, 32034, 21040, 33509, 24178, 26465, 19982, 38382, 39064,
      30456, 20851, 30340, 38771, 19977, 38024, 26041, 26696, 65292, 20294,
      22312, 29983, 25104, 33258, 28982, 35821, 35328, 24635, 32467, 26102,
      21457, 29983, 38169, 35823, 12290, 24314, 35758, 30452, 25509, 26597,
      30475, 21407, 22987, 32, 114, 101, 99, 111, 114, 100, 115, 32, 25968,
      25454, 65292, 24182, 32467, 21512, 21407, 25991, 25991, 29486, 36827,
      34892, 20998, 26512, 12290>>

NoKgDisclaimer ==
    <<20197, 19978, 20869, 23481, 20027, 35201, 22522, 20110, 36890, 29992,
      20013, 21307, 38024, 28792, 19982, 38771, 19977, 38024, 30456, 20851,
      30693, 35782, 65292, 20379, 25945, 23398, 19982, 31185, 30740, 21442,
      32771, 65292, 19981, 26500, 25104, 20010, 20307, 21270, 35786, 30103,
      24314, 35758, 12290>>

KgDisclaimer ==
    <<20197, 19978, 20869, 23481, 20165, 22522, 20110, 24050, 32435, 20837,
      30340, 38771, 19977, 38024, 30693, 35782, 22270, 35889, 19982, 30456,
      20851, 25991, 29486, 65292, 20379, 25945, 23398, 19982, 31185, 30740,
      21442, 32771, 65292, 19981, 26500, 25104, 20010, 20307, 21270, 35786,
      30103, 24314, 35758, 12290>>

\* call_llm_for_answer without the test of lines 380-385: the generation
\* service is asked to answer from no record
call_llm_for_answer_no_notfound(recs, query_type, llm) ==
    IF query_type = "unknown"
    THEN [called |-> FALSE, none |-> FALSE, text |-> UnknownAnswerKg]
    ELSE IF llm.kind = "raise"
    THEN [called |-> TRUE, none |-> FALSE, text |-> ApologyKg]
    ELSE [called |-> TRUE, none |-> llm.kind = "none", text |-> llm.text]

\* lines 374-464
call_llm_for_answer(recs, query_type, llm) ==
    IF query_type = "unknown"
    THEN [called |-> FALSE, none |-> FALSE, text |-> UnknownAnswerKg]
    ELSE IF recs = <<>>
    THEN [called |-> FALSE, none |-> FALSE, text |-> NotFoundAnswer]
    ELSE IF llm.kind = "raise"
    THEN [called |-> TRUE, none |-> FALSE, text |-> ApologyKg]
    ELSE [called |-> TRUE, none |-> llm.kind = "none", text |-> llm.text]

\* call_llm_for_answer_no_kg without the test of lines 214-218
call_llm_for_answer_no_kg_always(query_type, llm) ==
    IF llm.kind = "raise"
    THEN [called |-> TRUE, none |-> FALSE, text |-> ApologyNoKg]
    ELSE [called |-> TRUE, none |-> llm.kind = "none", text |-> llm.text]

\* lines 214-271
call_llm_for_answer_no_kg(query_type, llm) ==
    IF query_type = "unknown"
    THEN [called |-> FALSE, none |-> FALSE, text |-> UnknownAnswerNoKg]
    ELSE IF llm.kind = "raise"
    THEN [called |-> TRUE, none |-> FALSE, text |-> ApologyNoKg]
    ELSE [called |-> TRUE, none |-> llm.kind = "none", text |-> llm.text]

\* the replies of the generation service to an answer request: a text
\* without a disclaimer, with either disclaimer at its end, or with both
AnswerReplies ==
    {[kind |-> k, text |-> <<>>] : k \in {"raise", "none"}}
        \cup {[kind |-> "text", text |-> t] :
                 t \in {<<65>>, <<65>> \o KgDisclaimer, <<65>> \o NoKgDisclaimer,
                        <<65>> \o KgDisclaimer \o NoKgDisclaimer}}

AnsIdle ==
    /\ ansQueryType = "unknown" /\ ansRecords = <<>>
    /\ ansReply = [kind |-> "raise", text |-> <<>>]
    /\ ansPc = "idle"
    /\ ansKg = [called |-> FALSE, none |-> FALSE, text |-> <<>>]
    /\ ansNoKg = [called |-> FALSE, none |-> FALSE, text |-> <<>>]

(***************************************************************************)
(* qa_endpoint, POST /api/qa                                               *)
(*                                                                         *)
(* One request at a time is processed, step by step: a step ends at each   *)
(* call to the generation service or to the graph store.  The request's    *)
(* history is left out: it only adds messages to the generation requests.  *)
(***************************************************************************)
Graph == [diseases |-> GraphDiseases, combos |-> GraphCombos, points |-> GraphPoints]

\* req.use_kg is Optional[bool]; req.options is None or holds max_plans
UseKgValues == {"true", "false", "null"}
NoOptions == [given |-> FALSE, max_plans |-> 0]
OptionsValues == {NoOptions, [given |-> TRUE, max_plans |-> 1]}
RequestQuestions == {<<>>, <<"SP">>, <<"OTHER">>, <<"SP", "NAO_CU_ZHONG">>}

\* the intents the generation service returns to the server
ServerObjects ==
    {[query_type |-> qt, diseases |-> d, combos |-> c, points |-> pt] :
        qt \in LlmQueryTypes,
        d \in {<<>>, <<<<1, 1, 2>>>>, <<<<2, 1>>>>},
        c \in {<<>>, <<<<1, 2>>>>},
        pt \in {<<>>, <<<<1, 2>>>>}}

ServerParseReplies ==
    {[kind |-> "raise", lines |-> <<>>]}
        \cup {[kind |-> "text", lines |-> <<DocLine([type |-> "object", value |-> o])>>] :
                 o \in ServerObjects}

NoIntent == [query_type |-> NullQueryType, diseases |-> <<>>, combos |-> <<>>, points |-> <<>>]
NoAcc == [diseases |-> <<>>, combos |-> <<>>, points |-> <<>>,
          unmatched |-> <<>>, candidates |-> {}]
NoRecords == [null |-> TRUE, rows |-> <<>>]

\* QAResponse, and the HTTPException the endpoint raises instead: status is
\* the HTTP status (0 while there is no response) and error the exception
\* whose message the detail carries
NoResponse ==
    [status |-> 0, error |-> "none", answer |-> <<>>, query_type |-> NullQueryType,
     entities |-> [diseases |-> <<>>, combos |-> <<>>, points |-> <<>>],
     cypher |-> "null", records |-> NoRecords,
     entity_suggest |-> [null |-> TRUE, report |-> EmptySuggest]]

\* raise HTTPException(status_code = status, ...)
HttpError(status, error) == [NoResponse EXCEPT !.status = status, !.error = error]

\* lines 801-805: an HTTPException is re-raised, any other exception becomes
\* HTTPException(500, "internal error: {e}")
Surface(error) == HttpError(500, error)

\* the response model QAResponse(answer = ans, ...): answer must be a str
QAResponse(ans, a, cypher, recs) ==
    IF ans.none THEN Surface("ResponseValidationError")
    ELSE [status |-> 200, error |-> "none", answer |-> ans.text,
          query_type |-> parsed.query_type,
          entities |-> [diseases |-> a.diseases, combos |-> a.combos, points |-> a.points],
          cypher |-> cypher, records |-> recs,
          entity_suggest |->
              IF a.unmatched = <<>> /\ a.candidates = {}
              THEN [null |-> TRUE, report |-> EmptySuggest]
              ELSE [null |-> FALSE,
                    report |-> [unmatched |-> a.unmatched, candidates |-> a.candidates]]]

LlmCall(op, ok) == [to |-> "llm", op |-> op, ok |-> ok]
GraphCall(op, ok) == [to |-> "graph", op |-> op, ok |-> ok]
FnCall(op) == [to |-> "fn", op |-> op, ok |-> TRUE]

ServerIdle ==
    /\ cache = [k \in {"diseases", "combos", "points"} |-> [filled |-> FALSE, names |-> {}]]
    /\ nreq = 0
    /\ surfaced = {}
    /\ pc = "idle"
    /\ req = [question |-> <<>>, use_kg |-> "null", options |-> NoOptions]
    /\ warm = {}
    /\ parsed = NoIntent
    /\ acc = NoAcc
    /\ query = NoQuery
    /\ records = <<>>
    /\ calls = <<>>
    /\ resp = NoResponse

MaxRequests == 2

\* lines 713-716: the request arrives; an empty question ends it with 400
Receive(question, use_kg, options) ==
    /\ pc \in {"idle", "done"}
    /\ nreq < MaxRequests
    /\ nreq' = nreq + 1
    /\ req' = [question |-> question, use_kg |-> use_kg, options |-> options]
    /\ warm' = {k \in DOMAIN cache : cache[k].filled}
    /\ parsed' = NoIntent /\ acc' = NoAcc /\ query' = NoQuery
    /\ records' = <<>> /\ calls' = <<>>
    /\ IF Strip(question) = <<>>
       THEN resp' = HttpError(400, "HTTPException") /\ pc' = "done"
       ELSE resp' = NoResponse /\ pc' = "parse"
    /\ UNCHANGED <<cache, surfaced>>

\* the parse step calling the generation service a second time when the
\* first call fails
Parse_retry(reply) ==
    /\ pc = "parse"
    /\ LET r == call_llm_for_parse(Strip(req.question), reply)
       IN  /\ calls' = calls \o <<FnCall("call_llm_for_parse"),
                                   LlmCall("parse", reply.kind = "text")>>
                           \o (IF reply.kind = "text" THEN <<>>
                               ELSE <<LlmCall("parse", FALSE)>>)
           /\ IF r.raised
              THEN parsed' = NoIntent /\ resp' = Surface("ParseError") /\ pc' = "done"
              ELSE parsed' = r.value /\ resp' = resp /\ pc' = "get_all_diseases"
    /\ UNCHANGED <<cache, nreq, surfaced, req, warm, acc, query, records>>

\* line 729: parsed = call_llm_for_parse(question, history_for_llm)
Parse(reply) ==
    /\ pc = "parse"
    /\ LET r == call_llm_for_parse(Strip(req.question), reply)
       IN  /\ calls' = calls \o <<FnCall("call_llm_for_parse"),
                                   LlmCall("parse", reply.kind = "text")>>
           /\ IF r.raised
              THEN parsed' = NoIntent /\ resp' = Surface("ParseError") /\ pc' = "done"
              ELSE parsed' = r.value /\ resp' = resp /\ pc' = "get_all_diseases"
    /\ UNCHANGED <<cache, nreq, surfaced, req, warm, acc, query, records>>

\* use_kg taken as True whatever the request says
UseKg_always == TRUE

\* use_kg = True if req.use_kg is None else bool(req.use_kg)
UseKg == req.use_kg # "false"

\* the endpoint without the test of line 763: unknown is dispatched too
AfterNormalize_dispatch_unknown ==
    IF req.use_kg = "false" THEN "answer_no_kg" ELSE "dispatch"

\* lines 739-782: where the endpoint goes once normalize_entities returned
AfterNormalize ==
    IF ~UseKg THEN "answer_no_kg"
    ELSE IF parsed.query_type = "unknown" THEN "answer"
    ELSE "dispatch"

\* a normalization that reads the vocabulary of a category only when the
\* intent has a mention of it
GetAllAndNormalize_lazy(key, type, ok, entered, next) ==
    /\ pc = "get_all_" \o key
    /\ IF cache[key].filled \/ parsed[key] = <<>>
       THEN /\ acc' = RunLoops(Loop(parsed[key], cache[key].names, type, key), acc)
            /\ pc' = next
            /\ calls' = calls \o entered
            /\ UNCHANGED <<cache, resp>>
       ELSE /\ calls' = calls \o entered \o <<GraphCall("get_all_" \o key, ok)>>
            /\ IF ok
               THEN /\ cache' = [cache EXCEPT ![key] = [filled |-> TRUE, names |-> Graph[key]]]
                    /\ acc' = RunLoops(Loop(parsed[key], Graph[key], type, key), acc)
                    /\ pc' = next
                    /\ resp' = resp
               ELSE /\ resp' = Surface("VocabularyError")
                    /\ pc' = "done"
                    /\ UNCHANGED <<cache, acc>>
    /\ UNCHANGED <<nreq, surfaced, req, warm, parsed, query, records>>

\* one of get_all_diseases / get_all_combos / get_all_points (lines 79-97,
\* under lru_cache) and the loop of normalize_entities that follows it; ok
\* says whether graph.run succeeds if it is called, and entered is the call
\* of normalize_entities itself, at its first step.  A call that raises is
\* not cached and ends the request.
GetAllAndNormalize(key, type, ok, entered, next) ==
    /\ pc = "get_all_" \o key
    /\ IF cache[key].filled
       THEN /\ acc' = RunLoops(Loop(parsed[key], cache[key].names, type, key), acc)
            /\ pc' = next
            /\ calls' = calls \o entered
            /\ UNCHANGED <<cache, resp>>
       ELSE /\ calls' = calls \o entered \o <<GraphCall("get_all_" \o key, ok)>>
            /\ IF ok
               THEN /\ cache' = [cache EXCEPT ![key] = [filled |-> TRUE, names |-> Graph[key]]]
                    /\ acc' = RunLoops(Loop(parsed[key], Graph[key], type, key), acc)
                    /\ pc' = next
                    /\ resp' = resp
               ELSE /\ resp' = Surface("VocabularyError")
                    /\ pc' = "done"
                    /\ UNCHANGED <<cache, acc>>
    /\ UNCHANGED <<nreq, surfaced, req, warm, parsed, query, records>>

GetAllDiseases(ok) ==
    GetAllAndNormalize("diseases", "disease", ok, <<FnCall("normalize_entities")>>,
                       "get_all_combos")
GetAllCombos(ok) == GetAllAndNormalize("combos", "combo", ok, <<>>, "get_all_points")
GetAllPoints(ok) == GetAllAndNormalize("points", "point", ok, <<>>, AfterNormalize)

\* parsed_norm: parsed with the three normalized lists
ParsedNorm == [parsed EXCEPT !.diseases = acc.diseases, !.combos = acc.combos,
                             !.points = acc.points]

\* max_plans = req.options.max_plans if req.options else 10
MaxPlans == IF req.options.given THEN req.options.max_plans ELSE DefaultMaxPlans

\* lines 781-782: cypher, records = build_and_run_query(parsed_norm, max_plans)
Dispatch(store) ==
    /\ pc = "dispatch"
    /\ LET r == build_and_run_query(ParsedNorm, MaxPlans, store)
       IN  /\ calls' = calls \o <<FnCall("build_and_run_query")>>
                           \o (IF r.ran THEN <<GraphCall("run_cypher", store.ok)>>
                               ELSE <<>>)
           /\ query' = [cypher |-> r.cypher, params |-> r.params]
           /\ records' = r.records
           /\ IF r.exc # "none"
              THEN /\ resp' = Surface(r.exc) /\ pc' = "done"
                   /\ surfaced' = surfaced \cup {<<r.exc, Surface(r.exc).status>>}
              ELSE /\ resp' = resp /\ pc' = "answer"
                   /\ surfaced' = surfaced
    /\ UNCHANGED <<cache, nreq, req, warm, parsed, acc>>

\* lines 764-778 and 785-800: the grounded answer and the response; cypher is
\* "cypher or None", and None when query_type is unknown
Answer(llm) ==
    /\ pc = "answer"
    /\ LET ans == call_llm_for_answer(records, parsed.query_type, llm)
       IN  /\ calls' = calls \o <<FnCall("call_llm_for_answer")>>
                           \o (IF ans.called THEN <<LlmCall("answer", llm.kind = "text")>>
                               ELSE <<>>)
           /\ resp' = QAResponse(ans, acc,
                                 IF query.cypher = "" THEN "null" ELSE query.cypher,
                                 [null |-> FALSE, rows |-> records])
    /\ pc' = "done"
    /\ UNCHANGED <<cache, nreq, surfaced, req, warm, parsed, acc, query, records>>

\* lines 744-758: the answer without the graph and the response
AnswerNoKg(llm) ==
    /\ pc = "answer_no_kg"
    /\ LET ans == call_llm_for_answer_no_kg(parsed.query_type, llm)
       IN  /\ calls' = calls \o <<FnCall("call_llm_for_answer_no_kg")>>
                           \o (IF ans.called THEN <<LlmCall("answer", llm.kind = "text")>>
                               ELSE <<>>)
           /\ resp' = QAResponse(ans, acc, "null", NoRecords)
    /\ pc' = "done"
    /\ UNCHANGED <<cache, nreq, surfaced, req, warm, parsed, acc, query, records>>

(***************************************************************************)
(* get_all_diseases / get_all_combos / get_all_points under lru_cache      *)
(* (lines 79-97), called by requests that the server runs on concurrent    *)
(* threads.  A call to a cached function is three steps: the lookup, on a  *)
(* miss the call of the function (graph.run), and the store of its result; *)
(* the cache is not locked while the function runs.                        *)
(***************************************************************************)
MaxThreads == 2
MaxThreadRequests == 2

Threads == 1..MaxThreads

\* the order normalize_entities calls the three functions in
CacheOrder == <<"diseases", "combos", "points">>

ThrIdle ==
    /\ lruCache = [k \in {"diseases", "combos", "points"} |-> FALSE]
    /\ thread = [t \in Threads |-> [pc |-> "idle", at |-> 1]]
    /\ started = [t \in Threads |-> 0]
    /\ reads = [k \in {"diseases", "combos", "points"} |-> 0]

\* the thread has the vocabulary of its category: on to the next one, or
\* to the end of normalize_entities
Advance(t) ==
    IF thread[t].at < Len(CacheOrder)
    THEN [thread EXCEPT ![t] = [pc |-> "lookup", at |-> @.at + 1]]
    ELSE [thread EXCEPT ![t] = [pc |-> "idle", at |-> 1]]

\* a request reaches normalize_entities on thread t
StartNormalize(t) ==
    /\ thread[t].pc = "idle"
    /\ started[t] < MaxThreadRequests
    /\ started' = [started EXCEPT ![t] = @ + 1]
    /\ thread' = [thread EXCEPT ![t] = [pc |-> "lookup", at |-> 1]]
    /\ UNCHANGED <<lruCache, reads>>

\* the lookup of the lru_cache wrapper: a hit returns the cached list
LruLookup(t) ==
    /\ thread[t].pc = "lookup"
    /\ thread' = IF lruCache[CacheOrder[thread[t].at]]
                 THEN Advance(t)
                 ELSE [thread EXCEPT ![t].pc = "run"]
    /\ UNCHANGED <<lruCache, started, reads>>

\* on a miss, the function body: graph.run(cql).data(); a call that raises
\* ends the request and stores nothing
GraphRun(t, ok) ==
    /\ thread[t].pc = "run"
    /\ reads' = [reads EXCEPT ![CacheOrder[thread[t].at]] = @ + 1]
    /\ thread' = IF ok THEN [thread EXCEPT ![t].pc = "store"]
                 ELSE [thread EXCEPT ![t] = [pc |-> "idle", at |-> 1]]
    /\ UNCHANGED <<lruCache, started>>

\* the wrapper stores the result the function returned
LruStore(t) ==
    /\ thread[t].pc = "store"
    /\ lruCache' = [lruCache EXCEPT ![CacheOrder[thread[t].at]] = TRUE]
    /\ thread' = Advance(t)
    /\ UNCHANGED <<started, reads>>

(***************************************************************************)
(* SpecMatch: _best_match as a function of its inputs.                     *)
(***************************************************************************)
\* the names a vocabulary snapshot is drawn from
VocabPool == {<<1, 2>>, <<1, 1, 2>>, <<1, 2, 2>>, <<1, 1, 2, 1>>, <<2, 1, 1, 1>>, <<1, 2, 1, 2>>}
Vocabularies == SUBSET VocabPool
Cutoffs == {0, 25, 50, 60, 70, 75, 80, 100}

NormIdle ==
    /\ vocab = [diseases |-> {}, combos |-> {}, points |-> {}]
    /\ intent = [query_type |-> "unknown", diseases |-> <<>>, combos |-> <<>>, points |-> <<>>]
    /\ normPc = "idle"
    /\ normOnce = [normalized |-> intent, suggest |-> EmptySuggest]
    /\ normTwice = [normalized |-> intent, suggest |-> EmptySuggest]

MatchIdle ==
    /\ name = <<>> /\ candidates = {} /\ matchPc = "idle"
    /\ matchAt = [c \in Cutoffs |-> [best |-> None, res |-> <<>>]]

InitMatch ==
    /\ NormIdle /\ ParseIdle /\ DispIdle /\ AnsIdle /\ ServerIdle /\ ThrIdle
    /\ name \in Strings
    /\ candidates \in Vocabularies
    /\ matchPc = "call"
    /\ matchAt = [c \in Cutoffs |-> [best |-> None, res |-> <<>>]]

\* _best_match(name, candidates, cutoff = c) for every c of Cutoffs
BestMatchAtCutoffs ==
    /\ matchPc = "call"
    /\ matchAt' = [c \in Cutoffs |-> best_match(name, candidates, c, TopN)]
    /\ matchPc' = "returned"
    /\ UNCHANGED <<name, candidates, normVars, parseVars, dispVars, ansVars, serverVars, thrVars>>

NextMatch == BestMatchAtCutoffs
SpecMatch == InitMatch /\ [][NextMatch]_vars

(***************************************************************************)
(* SpecNorm: normalize_entities as a function of the intent and of the     *)
(* three vocabularies, applied once and then to its own result.            *)
(***************************************************************************)
InitNorm ==
    /\ MatchIdle /\ ParseIdle /\ DispIdle /\ AnsIdle /\ ServerIdle /\ ThrIdle
    /\ vocab \in {[diseases |-> d, combos |-> c, points |-> p] :
                     d \in {{}, GraphDiseases}, c \in {{}, GraphCombos}, p \in {{}, GraphPoints}}
    /\ intent \in Intents
    /\ normPc = "call"
    /\ normOnce = [normalized |-> intent, suggest |-> EmptySuggest]
    /\ normTwice = [normalized |-> intent, suggest |-> EmptySuggest]

NormalizeOnce ==
    /\ normPc = "call"
    /\ normOnce' = normalize_entities(intent, vocab.diseases, vocab.combos, vocab.points)
    /\ normPc' = "once"
    /\ UNCHANGED <<vocab, intent, normTwice, matchVars, parseVars, dispVars, ansVars, serverVars, thrVars>>

NormalizeAgain ==
    /\ normPc = "once"
    /\ normTwice' = normalize_entities(normOnce.normalized,
                                       vocab.diseases, vocab.combos, vocab.points)
    /\ normPc' = "twice"
    /\ UNCHANGED <<vocab, intent, normOnce, matchVars, parseVars, dispVars, ansVars, serverVars, thrVars>>

NextNorm == NormalizeOnce \/ NormalizeAgain
SpecNorm == InitNorm /\ [][NextNorm]_vars

(***************************************************************************)
(* SpecParse: call_llm_for_parse as a function of the question and of the  *)
(* reply of the generation service.                                        *)
(***************************************************************************)
InitParse ==
    /\ MatchIdle /\ NormIdle /\ DispIdle /\ AnsIdle /\ ServerIdle /\ ThrIdle
    /\ \E in \in (Questions \X FailedReplies) \cup (SomeQuestions \X ParseReplies) :
          parseQuestion = in[1] /\ parseReply = in[2]
    /\ parsePc = "call"
    /\ parseResult = [raised |-> FALSE, value |-> EmptyDict]

CallLlmForParse ==
    /\ parsePc = "call"
    /\ parseResult' = call_llm_for_parse(parseQuestion, parseReply)
    /\ parsePc' = "returned"
    /\ UNCHANGED <<parseQuestion, parseReply, matchVars, normVars, dispVars, ansVars, serverVars, thrVars>>

NextParse == CallLlmForParse
SpecParse == InitParse /\ [][NextParse]_vars

(***************************************************************************)
(* SpecDispatch: build_and_run_query as a function of the normalized       *)
(* intent, of max_plans and of what the graph store does.                  *)
(***************************************************************************)
DispatchIntents ==
    {[i EXCEPT !.query_type = qt] : i \in Intents, qt \in LlmQueryTypes}

InitDispatch ==
    /\ MatchIdle /\ NormIdle /\ ParseIdle /\ AnsIdle /\ ServerIdle /\ ThrIdle
    /\ dispIntent \in DispatchIntents
    /\ dispMaxPlans \in {1, DefaultMaxPlans}
    /\ dispStore \in StoreOutcomes
    /\ dispPc = "call"
    /\ dispResult = RaiseValueError

BuildAndRunQuery ==
    /\ dispPc = "call"
    /\ dispResult' = build_and_run_query(dispIntent, dispMaxPlans, dispStore)
    /\ dispPc' = "returned"
    /\ UNCHANGED <<dispIntent, dispMaxPlans, dispStore, matchVars, normVars, parseVars,
                   ansVars, serverVars, thrVars>>

NextDispatch == BuildAndRunQuery
SpecDispatch == InitDispatch /\ [][NextDispatch]_vars

(***************************************************************************)
(* SpecAnswer: the two answer functions as functions of the query type,    *)
(* of the records and of what the generation service does.                 *)
(***************************************************************************)
InitAnswer ==
    /\ MatchIdle /\ NormIdle /\ ParseIdle /\ DispIdle /\ ServerIdle /\ ThrIdle
    /\ ansQueryType \in LlmQueryTypes
    /\ ansRecords \in {Rows(n) : n \in 0..MaxRecords}
    /\ ansReply \in AnswerReplies
    /\ ansPc = "call"
    /\ ansKg = [called |-> FALSE, none |-> FALSE, text |-> <<>>]
    /\ ansNoKg = [called |-> FALSE, none |-> FALSE, text |-> <<>>]

CallLlmForAnswer ==
    /\ ansPc = "call"
    /\ ansKg' = call_llm_for_answer(ansRecords, ansQueryType, ansReply)
    /\ ansNoKg' = call_llm_for_answer_no_kg(ansQueryType, ansReply)
    /\ ansPc' = "returned"
    /\ UNCHANGED <<ansQueryType, ansRecords, ansReply, matchVars, normVars, parseVars,
                   dispVars, serverVars, thrVars>>

NextAnswer == CallLlmForAnswer
SpecAnswer == InitAnswer /\ [][NextAnswer]_vars

(***************************************************************************)
(* SpecThreads: the vocabulary cache under concurrent requests.            *)
(***************************************************************************)
InitThreads ==
    MatchIdle /\ NormIdle /\ ParseIdle /\ DispIdle /\ AnsIdle /\ ServerIdle /\ ThrIdle

OthersIdle == UNCHANGED <<matchVars, normVars, parseVars, dispVars, ansVars, serverVars>>

NextThreads ==
    \/ \E t \in Threads : StartNormalize(t) /\ OthersIdle
    \/ \E t \in Threads : LruLookup(t) /\ OthersIdle
    \/ \E t \in Threads, ok \in BOOLEAN : GraphRun(t, ok) /\ OthersIdle
    \/ \E t \in Threads : LruStore(t) /\ OthersIdle

SpecThreads == InitThreads /\ [][NextThreads]_vars

(***************************************************************************)
(* Spec: the server processing requests.                                   *)
(***************************************************************************)
Init == MatchIdle /\ NormIdle /\ ParseIdle /\ DispIdle /\ AnsIdle /\ ServerIdle /\ ThrIdle

Idle == UNCHANGED <<matchVars, normVars, parseVars, dispVars, ansVars, thrVars>>

Next ==
    \/ \E q \in RequestQuestions, u \in UseKgValues, o \in OptionsValues :
          Receive(q, u, o) /\ Idle
    \/ \E reply \in ServerParseReplies : Parse(reply) /\ Idle
    \/ \E ok \in BOOLEAN : GetAllDiseases(ok) /\ Idle
    \/ \E ok \in BOOLEAN : GetAllCombos(ok) /\ Idle
    \/ \E ok \in BOOLEAN : GetAllPoints(ok) /\ Idle
    \/ \E store \in StoreOutcomes : Dispatch(store) /\ Idle
    \/ \E llm \in AnswerReplies : Answer(llm) /\ Idle
    \/ \E llm \in AnswerReplies : AnswerNoKg(llm) /\ Idle

Spec == Init /\ [][Next]_vars

(***************************************************************************)
(* Claims on normalization                                                 *)
(***************************************************************************)
Categories == {"diseases", "combos", "points"}

\* C4: normalization is a position-wise substitution: for each category the
\* normalized list has the length of the input list, and its element at each
\* position is the input's element at that position or a member of the
\* category's vocabulary.
C4_PositionWiseSubstitution ==
    normPc \in {"once", "twice"} =>
        \A k \in Categories :
            /\ Len(normOnce.normalized[k]) = Len(intent[k])
            /\ \A i \in 1..Len(intent[k]) :
                   \/ normOnce.normalized[k][i] = intent[k][i]
                   \/ normOnce.normalized[k][i] \in vocab[k]

\* a list of two mentions of which one was replaced by a vocabulary name and
\* the other, matching nothing, was kept
C4_Witness ==
    /\ normPc = "once"
    /\ \E k \in Categories :
          /\ Len(intent[k]) = 2
          /\ \E i, j \in 1..2 :
                /\ normOnce.normalized[k][i] # intent[k][i]
                /\ normOnce.normalized[k][j] = intent[k][j]
                /\ normOnce.normalized[k][j] \notin vocab[k]

\* C5: normalization is idempotent on the intent: normalizing the normalized
\* intent again, against the same vocabularies, gives the same query_type and
\* the same diseases, combos and points lists.
C5_NormalizationIdempotent ==
    normPc = "twice" => normTwice.normalized = normOnce.normalized

\* the first pass replaced a mention by a vocabulary name that has a second
\* close candidate, and the second pass has run
C5_Witness ==
    /\ normPc = "twice"
    /\ normOnce.normalized # intent
    /\ normTwice.suggest.candidates # {}

\* C6: cutoff monotonicity of _best_match: for a fixed mention and vocabulary,
\* a mention unmatched at cutoff c1 is unmatched at every cutoff c2 >= c1.
C6_CutoffMonotone ==
    matchPc = "returned" =>
        \A c1 \in Cutoffs, c2 \in Cutoffs :
            (c1 <= c2 /\ matchAt[c1].best = None) => matchAt[c2].best = None

\* a mention matched at a low cutoff, unmatched at 0.7 although a candidate
\* cleared 0.7 in get_close_matches, and unmatched above
C6_Witness ==
    /\ matchPc = "returned"
    /\ matchAt[50].best # None
    /\ matchAt[70].best = None /\ matchAt[70].res # <<>>
    /\ matchAt[100].best = None

(***************************************************************************)
(* Claims on the intent parser                                             *)
(***************************************************************************)
\* C2: the intent parser never fails: whatever the generation call does
\* (exception, no content, text that is not JSON, JSON that is not an object,
\* an object with or without the fields), call_llm_for_parse returns normally
\* with an intent that has query_type, diseases, combos and points.
C2_ParserNeverFails ==
    parsePc = "returned" =>
        /\ ~parseResult.raised
        /\ IntentKeys \subseteq DOMAIN parseResult.value

\* the reply was a JSON array, and the parser returned the rule-based intent
\* for a question that names a combo
C2_Witness ==
    /\ parsePc = "returned"
    /\ parseReply.kind = "text"
    /\ \E i \in DOMAIN parseReply.lines :
          ~parseReply.lines[i].fence /\ parseReply.lines[i].doc.type = "array"
    /\ parseResult.value.query_type = "combo_to_diseases"

\* C26: when the generation call fails or its output cannot be parsed, the
\* parser returns what its keyword rules give, the combo rule before the
\* stroke rule: combo_to_diseases for a question that matches the combo rule,
\* also when it matches the stroke rule too, disease_to_plans for one that
\* matches the stroke rule only, and unknown with three empty lists for one
\* that matches neither.
C26_FallbackRuleOrder ==
    (parsePc = "returned" /\ ParseTry(parseReply).exc # "none") =>
        LET has(t) == \E i \in DOMAIN parseQuestion : parseQuestion[i] = t
            comboRule == /\ has("NIE_SAN_ZHEN")
                         /\ has("SHENME_BING") \/ has("NAXIE_BING") \/ has("SHIYINGZHENG")
            strokeRule == has("NAO_CU_ZHONG")
        IN  /\ ~parseResult.raised
            /\ comboRule =>
                   parseResult.value = [query_type |-> "combo_to_diseases",
                                        diseases |-> <<>>, combos |-> <<NieSanZhen>>,
                                        points |-> <<>>]
            /\ (~comboRule /\ strokeRule) =>
                   parseResult.value = [query_type |-> "disease_to_plans",
                                        diseases |-> <<NaoCuZhongHouYiZheng>>,
                                        combos |-> <<>>, points |-> <<>>]
            /\ (~comboRule /\ ~strokeRule) =>
                   parseResult.value = [query_type |-> "unknown", diseases |-> <<>>,
                                        combos |-> <<>>, points |-> <<>>]

\* the generation call raised for a question that matches both rules
C26_Witness ==
    /\ parsePc = "returned" /\ parseReply.kind = "raise"
    /\ parseQuestion = <<"NAO_CU_ZHONG", "NIE_SAN_ZHEN", "NAXIE_BING">>
    /\ parseResult.value.query_type = "combo_to_diseases"

\* the JSON object of a reply that is one, bare or in a code fence (closed or
\* not): the set with that object, or the empty set
JsonObjectOf(reply) ==
    IF reply.kind # "text" \/ reply.lines = <<>> THEN {}
    ELSE LET ls == reply.lines
             at == IF ls[1].fence THEN 2 ELSE 1
         IN  IF /\ Len(ls) >= at /\ Len(ls) <= 2 * at - 1
                /\ ~ls[at].fence /\ ls[at].doc.type = "object"
                /\ (Len(ls) > at => ls[Len(ls)].fence)
             THEN {ls[at].doc.value} ELSE {}

\* C27: a reply that is a JSON object is not an error and the fallback rules
\* are not used, also when it omits some of the four fields: the parser
\* returns the object with every field that was present unchanged, every
\* omitted list empty and an omitted query_type set to disease_to_plans.
C27_MissingFieldsDefaulted ==
    parsePc = "returned" =>
        \A o \in JsonObjectOf(parseReply) :
            /\ ~parseResult.raised
            /\ parseResult.value =
                   [k \in IntentKeys \cup DOMAIN o |->
                       IF k \in DOMAIN o THEN o[k]
                       ELSE IF k = "query_type" THEN "disease_to_plans" ELSE <<>>]

\* the reply was an object with points only, in a code fence, to a question
\* the fallback rules would answer with combo_to_diseases
C27_Witness ==
    /\ parsePc = "returned"
    /\ parseQuestion = <<"NIE_SAN_ZHEN", "SHENME_BING">>
    /\ JsonObjectOf(parseReply) = {[points |-> <<<<1, 1, 2>>>>]}
    /\ Len(parseReply.lines) = 3
    /\ parseResult.value = [query_type |-> "disease_to_plans", diseases |-> <<>>,
                            combos |-> <<>>, points |-> <<<<1, 1, 2>>>>]

(***************************************************************************)
(* Claims on dispatch                                                      *)
(***************************************************************************)
\* C7: required-entity gating: build_and_run_query with query_type
\* disease_combo_to_effect raises the validation error (ValueError), and runs
\* no query, whenever the combo list is empty, whatever the disease list, and
\* whenever the disease list is empty, whatever the combo list.
C7_RequiredEntityGating ==
    (/\ dispPc = "returned"
     /\ dispIntent.query_type = "disease_combo_to_effect"
     /\ (dispIntent.combos = <<>> \/ dispIntent.diseases = <<>>))
        => (dispResult.exc = "ValueError" /\ ~dispResult.ran)

\* two diseases and no combo: the validation error
C7_Witness ==
    /\ dispPc = "returned"
    /\ dispIntent.query_type = "disease_combo_to_effect"
    /\ Len(dispIntent.diseases) = 2 /\ dispIntent.combos = <<>>
    /\ dispResult.exc = "ValueError"

(***************************************************************************)
(* Claims on answer synthesis                                              *)
(***************************************************************************)
\* C10: when query_type is unknown, call_llm_for_answer (grounded) and
\* call_llm_for_answer_no_kg (not grounded) return the same fixed
\* clarification request, whatever the records, and neither calls the
\* generation service.
C10_UnknownShortCircuits ==
    (ansPc = "returned" /\ ansQueryType = "unknown") =>
        /\ ansKg.text = UnknownAnswerKg
        /\ ansNoKg.text = ansKg.text
        /\ ~ansKg.none /\ ~ansNoKg.none
        /\ ~ansKg.called /\ ~ansNoKg.called

\* unknown with records at hand and a generation service that would have
\* answered
C10_Witness ==
    /\ ansPc = "returned" /\ ansQueryType = "unknown"
    /\ ansRecords # <<>> /\ ansReply.kind = "text"
    /\ ansNoKg.text = UnknownAnswerNoKg

(***************************************************************************)
(* Claims on qa_endpoint                                                   *)
(***************************************************************************)
StoreCalls == {i \in DOMAIN calls : calls[i].to = "graph"}
VocabularyReads == {"get_all_diseases", "get_all_combos", "get_all_points"}

\* C1: a request whose question is empty once stripped is answered with status
\* 400 and ends before call_llm_for_parse, normalize_entities, the graph
\* store or an answer function is called.
C1_EmptyQuestionRejected ==
    (pc # "idle" /\ \A i \in DOMAIN req.question : req.question[i] = "SP") =>
        /\ pc = "done"
        /\ resp.status = 400
        /\ calls = <<>>

\* a question of whitespace only, rejected while the vocabulary cache is
\* filled from an earlier request
C1_Witness ==
    /\ pc = "done" /\ req.question = <<"SP">>
    /\ resp.status = 400
    /\ cache["diseases"].filled

\* C3 as stated: the query_type of every intent carried through the pipeline
\* to the response is one of the six query types.
C3_QueryTypeInEnum ==
    (pc = "done" /\ resp.status = 200) => resp.query_type \in QueryTypes

C9_ValidationDistinctFromStoreError ==
    \A a \in surfaced, b \in surfaced : a[1] # b[1] => a[2] # b[2]

\* C11 as stated: a request whose parsed query_type is unknown makes no call
\* to the graph store, from its start to its response.
C11_UnknownNoStoreCall ==
    (pc \notin {"idle", "parse"} /\ parsed.query_type = "unknown") => StoreCalls = {}

\* C11, amended: a request whose parsed query_type is unknown runs no graph
\* query: build_and_run_query and run_cypher are never called for it.  Its
\* only calls to the graph store are the vocabulary reads of
\* normalize_entities, for categories that were not cached when the request
\* arrived, and there are none when all three were cached.
C11_UnknownRunsNoQuery ==
    (pc \notin {"idle", "parse"} /\ parsed.query_type = "unknown") =>
        /\ \A i \in StoreCalls :
               /\ calls[i].op \in VocabularyReads
               /\ calls[i].op \notin {"get_all_" \o k : k \in warm}
        /\ \A i \in DOMAIN calls : calls[i] # FnCall("build_and_run_query")
        /\ query = NoQuery

\* an unknown intent answered in grounded mode with the fixed clarification,
\* by a request that found the cache empty and read the three vocabularies
C11_Witness ==
    /\ pc = "done" /\ resp.status = 200
    /\ parsed.query_type = "unknown" /\ req.use_kg # "false"
    /\ resp.answer = UnknownAnswerKg
    /\ warm = {}
    /\ Cardinality(StoreCalls) = 3

(***************************************************************************)
(* Claims on the disclaimers                                               *)
(***************************************************************************)
\* s in t, for two strings
Occurs(s, t) ==
    \E i \in 0..(Len(t) - Len(s)) : SubSeq(t, i + 1, i + Len(s)) = s

\* C12 as stated: every answer string the answer functions return carries the
\* disclaimer sentence of its mode: the grounded one from call_llm_for_answer,
\* the general-knowledge one from call_llm_for_answer_no_kg, on every path.
C12_AnswerCarriesDisclaimer ==
    ansPc = "returned" =>
        /\ ~ansKg.none => Occurs(KgDisclaimer, ansKg.text)
        /\ ~ansNoKg.none => Occurs(NoKgDisclaimer, ansNoKg.text)

\* C13 as stated: no answer the pipeline returns contains both the grounded
\* and the general-knowledge disclaimer.
C13_DisclaimersDisjoint ==
    (pc = "done" /\ resp.status = 200) =>
        ~(Occurs(KgDisclaimer, resp.answer) /\ Occurs(NoKgDisclaimer, resp.answer))

(***************************************************************************)
(* Claims on the modes and on failures                                     *)
(***************************************************************************)
\* C14: a request with use_kg = false dispatches no query template:
\* build_and_run_query and run_cypher are not called, and the response it
\* produces has records = null and cypher = null.
C14_NoKgSkipsDispatch ==
    (pc # "idle" /\ req.use_kg = "false") =>
        /\ \A i \in DOMAIN calls :
               calls[i].op \notin {"build_and_run_query", "run_cypher"}
        /\ (pc = "done" /\ resp.status = 200) =>
               (resp.records.null /\ resp.cypher = "null")

\* a use_kg = false request for a query type with its entity, answered by the
\* generation service
C14_Witness ==
    /\ pc = "done" /\ resp.status = 200 /\ req.use_kg = "false"
    /\ resp.query_type = "disease_to_plans" /\ resp.entities.diseases # <<>>
    /\ LlmCall("answer", TRUE) \in {calls[i] : i \in DOMAIN calls}

\* C15: when the generation call raises while producing the final answer,
\* the answer function returns a fixed apology, a string in both modes, and
\* the apology of call_llm_for_answer differs from the apology of
\* call_llm_for_answer_no_kg.
C15_ApologyPerMode ==
    (ansPc = "returned" /\ ansReply.kind = "raise") =>
        /\ ansNoKg.called => (~ansNoKg.none /\ ansNoKg.text = ApologyNoKg)
        /\ ansKg.called => (~ansKg.none /\ ansKg.text = ApologyKg)
        /\ (ansKg.called /\ ansNoKg.called) => ansKg.text # ansNoKg.text

\* both functions called the generation service, which raised
C15_Witness ==
    /\ ansPc = "returned" /\ ansReply.kind = "raise"
    /\ ansKg.called /\ ansNoKg.called
    /\ Len(ansRecords) = MaxRecords

\* C17: when run_cypher fails, the failure leaves build_and_run_query and the
\* request ends with status 500: no answer function is called and the
\* response carries no answer.
C17_StoreFailureIsFatal ==
    GraphCall("run_cypher", FALSE) \in {calls[i] : i \in DOMAIN calls} =>
        /\ pc = "done"
        /\ resp.status = 500 /\ resp.error = "StoreError"
        /\ resp.answer = <<>>
        /\ \A i \in DOMAIN calls :
               calls[i].op \notin {"call_llm_for_answer", "call_llm_for_answer_no_kg"}

\* the store failed on the query of a request whose vocabulary was cached
C17_Witness ==
    /\ pc = "done" /\ resp.error = "StoreError"
    /\ warm = Categories
    /\ query.cypher = "disease_to_plans"

\* C18 as stated: a request with a non-empty question in which every call to
\* the graph store succeeded, and in which the generation service raised or
\* returned no usable content (for parsing or for the answer), does not end
\* in an error response: it ends with status 200 and an answer string.
C18_GenerationFailureDegrades ==
    (/\ pc = "done" /\ Strip(req.question) # <<>>
     /\ \A i \in StoreCalls : calls[i].ok
     /\ \E i \in DOMAIN calls : calls[i].to = "llm" /\ ~calls[i].ok)
        => (resp.status = 200 /\ resp.answer # <<>>)

(***************************************************************************)
(* Claims on the suggestion report                                         *)
(***************************************************************************)
\* the vocabulary candidates that clear the cutoff for a mention: the names
\* get_close_matches returns at the default cutoff
Cleared(mention, k) == get_close_matches(mention, vocab[k], TopN, DefaultCutoff)

\* the vocabulary names close to a mention below the cutoff
SubCutoff(mention, k) ==
    {v \in vocab[k] : Ratio(v, mention).num > 0
                       /\ ~RatioAtLeast(Ratio(v, mention), DefaultCutoff)}

\* the type normalize_entities reports a mention of each category with
TypeOf == [diseases |-> "disease", combos |-> "combo", points |-> "point"]

\* C19 as stated: if every mention of the intent has exactly one vocabulary
\* candidate clearing the cutoff, normalize_entities returns the empty
\* suggestion report.
C19_SingleCandidateNoSuggestion ==
    (/\ normPc \in {"once", "twice"}
     /\ \A k \in Categories : \A i \in DOMAIN intent[k] :
            Len(Cleared(intent[k][i], k)) = 1)
        => normOnce.suggest = EmptySuggest

\* C20 as stated: a mention for which no vocabulary candidate clears the
\* cutoff is kept unchanged at its position, is recorded under unmatched with
\* the type of its category, and is recorded under candidates whenever the
\* vocabulary has sub-cutoff candidates for it.
C20_UnmatchedReported ==
    normPc \in {"once", "twice"} =>
        \A k \in Categories : \A i \in DOMAIN intent[k] :
            Cleared(intent[k][i], k) = <<>> =>
                /\ normOnce.normalized[k][i] = intent[k][i]
                /\ \E j \in DOMAIN normOnce.suggest.unmatched :
                       normOnce.suggest.unmatched[j]
                           = [type |-> TypeOf[k], name |-> intent[k][i]]
                /\ SubCutoff(intent[k][i], k) # {} =>
                       \E e \in normOnce.suggest.candidates :
                           e.name = intent[k][i] /\ e.category = k

\* C21 as stated: a mention with more than one vocabulary candidate clearing
\* the cutoff is replaced by the best-ranked of them, all the cleared
\* candidates (at most five) are recorded under candidates for the mention and
\* its category, and the mention is not added to unmatched.
C21_BestOfSeveralAdopted ==
    normPc \in {"once", "twice"} =>
        \A k \in Categories : \A i \in DOMAIN intent[k] :
            Len(Cleared(intent[k][i], k)) > 1 =>
                /\ normOnce.normalized[k][i] = Cleared(intent[k][i], k)[1]
                /\ Len(Cleared(intent[k][i], k)) <= TopN
                /\ \E e \in normOnce.suggest.candidates :
                       /\ e.name = intent[k][i] /\ e.category = k
                       /\ e.cands = Cleared(intent[k][i], k)
                /\ \A j \in DOMAIN normOnce.suggest.unmatched :
                       normOnce.suggest.unmatched[j]
                           # [type |-> TypeOf[k], name |-> intent[k][i]]


(***************************************************************************)
(* Claims on the query templates                                           *)
(***************************************************************************)
\* the entity lists each branch of build_and_run_query tests and reads
\* (lines 492, 559, 578, 611, 644)
RequiredLists(qt) ==
    IF qt \in {"disease_to_plans", "disease_to_point_summary"} THEN {"diseases"}
    ELSE IF qt \in {"combo_to_diseases", "combo_to_points"} THEN {"combos"}
    ELSE IF qt = "disease_combo_to_effect" THEN {"diseases", "combos"}
    ELSE {}

\* two lists are both empty or have the same first element
SameFirst(l1, l2) ==
    \/ l1 = <<>> /\ l2 = <<>>
    \/ l1 # <<>> /\ l2 # <<>> /\ l1[1] = l2[1]

\* what may follow the first element of a required list, and what another
\* list may be
OtherMentions == {<<>>, <<<<2, 1>>>>, <<<<1, 2>>, <<>>>>}

\* the intents with the query_type of p whose required lists have the first
\* element of those of p: the one cut down to these first elements, and the
\* ones with other mentions after them and in the other lists
Variants(p) ==
    {[query_type |-> p.query_type,
      diseases |-> IF "diseases" \in RequiredLists(p.query_type)
                   THEN SubSeq(p.diseases, 1, Min(1, Len(p.diseases))) \o
                        (IF p.diseases = <<>> THEN <<>> ELSE d)
                   ELSE d,
      combos |-> IF "combos" \in RequiredLists(p.query_type)
                 THEN SubSeq(p.combos, 1, Min(1, Len(p.combos))) \o
                      (IF p.combos = <<>> THEN <<>> ELSE c)
                 ELSE c,
      points |-> pt] :
        d \in OtherMentions, c \in OtherMentions, pt \in OtherMentions}

\* C22: two intents with the same query_type whose required lists agree on
\* their first element give the same query text and the same bound
\* parameters, whatever the other elements and the other lists are.  Every
\* intent is compared with its variants, the one cut down to the first
\* elements among them; two intents that agree on the first elements have the
\* same cut-down variant.
C22_FirstElementOnly ==
    dispPc = "returned" =>
        \A q \in Variants(dispIntent) :
            /\ q.query_type = dispIntent.query_type
            /\ \A k \in RequiredLists(q.query_type) : SameFirst(q[k], dispIntent[k])
            /\ LET r == build_and_run_query(q, dispMaxPlans, dispStore)
               IN  r.cypher = dispResult.cypher /\ r.params = dispResult.params

\* a query has run for an intent with two different diseases and took the
\* first one
C22_Witness ==
    /\ dispPc = "returned" /\ dispResult.ran
    /\ dispIntent.query_type = "disease_to_plans"
    /\ Len(dispIntent.diseases) = 2
    /\ dispIntent.diseases[1] # dispIntent.diseases[2]
    /\ dispResult.params.disease_name = dispIntent.diseases[1]

\* C23: the query text given to the graph store depends on the query_type
\* only: whenever a query is run its text is the one run for the same
\* query_type with empty entity strings and a cap of 1, and the entity strings
\* and the cap are in the bound parameters.
C23_QueryTextByTypeOnly ==
    (dispPc = "returned" /\ dispResult.ran) =>
        LET ref == build_and_run_query([query_type |-> dispIntent.query_type,
                                        diseases |-> <<<<>>>>, combos |-> <<<<>>>>,
                                        points |-> <<>>],
                                       1, [ok |-> TRUE, rows |-> 0])
            req_ == RequiredLists(dispIntent.query_type)
        IN  /\ ref.ran /\ dispResult.cypher = ref.cypher
            /\ DOMAIN dispResult.params = DOMAIN ref.params
            /\ DOMAIN dispResult.params \subseteq {"disease_name", "combo_name", "limit"}
            /\ "disease_name" \in DOMAIN dispResult.params <=> "diseases" \in req_
            /\ "combo_name" \in DOMAIN dispResult.params <=> "combos" \in req_
            /\ "diseases" \in req_ =>
                   dispResult.params.disease_name = dispIntent.diseases[1]
            /\ "combos" \in req_ =>
                   dispResult.params.combo_name = dispIntent.combos[1]
            /\ "limit" \in DOMAIN dispResult.params =>
                   dispResult.params.limit = dispMaxPlans

\* a query has run with entity strings and a cap other than those of the
\* reference run
C23_Witness ==
    /\ dispPc = "returned" /\ dispResult.ran
    /\ dispIntent.query_type = "combo_to_diseases"
    /\ dispIntent.combos[1] = <<1, 2, 2, 2>>
    /\ dispMaxPlans = DefaultMaxPlans
    /\ dispResult.cypher = "combo_to_diseases"

C29_UnmatchedMentionDispatched ==
    LET need == RequiredLists(parsed.query_type)
        unmatched(k) == \E j \in DOMAIN acc.unmatched :
                            acc.unmatched[j] = [type |-> TypeOf[k], name |-> parsed[k][1]]
        bound(k) == IF k = "diseases" THEN query.params.disease_name
                    ELSE query.params.combo_name
    IN  (/\ pc \in {"answer", "done"}
         /\ \E i \in DOMAIN calls : calls[i] = FnCall("normalize_entities")
         /\ resp.error # "VocabularyError"
         /\ req.use_kg # "false"
         /\ \A k \in need : parsed[k] # <<>>
         /\ \E k \in need : unmatched(k))
            => /\ \E i \in DOMAIN calls : calls[i].op = "run_cypher"
               /\ resp.error # "ValueError"
               /\ \A k \in need :
                      /\ bound(k) = acc[k][1]
                      /\ unmatched(k) => (/\ bound(k) = parsed[k][1]
                                          /\ parsed[k][1] \notin Graph[k])

\* a request for the plans of a disease the vocabulary does not know has been
\* answered from the records of the query run with that mention
C29_Witness ==
    /\ pc = "done" /\ resp.status = 200
    /\ parsed.query_type = "disease_to_plans"
    /\ parsed.diseases = <<<<2, 1>>>>
    /\ ~resp.entity_suggest.null
    /\ \E i \in DOMAIN calls : calls[i] = GraphCall("run_cypher", TRUE)
    /\ query.params.disease_name = <<2, 1>>

\* the request has read the vocabulary of category k from the graph store,
\* and the read succeeded (ok) or failed
HasRead(k, ok) == \E i \in DOMAIN calls : calls[i] = GraphCall("get_all_" \o k, ok)

\* C30: normalization reads the three vocabularies before the endpoint
\* branches on use_kg, whatever the mention lists are: a request that got
\* past normalization has read, before any dispatch or answer call, every
\* vocabulary that was not cached when it arrived.  A read that fails ends
\* the request with the server error, without dispatch and without an answer,
\* whatever use_kg is, and leaves the cache of its category empty, so that
\* the next request does not find the category cached and reads again.
C30_VocabularyReadFailure ==
    /\ [](/\ (/\ \E i \in DOMAIN calls : calls[i] = FnCall("normalize_entities")
              /\ pc \in {"dispatch", "answer", "answer_no_kg", "done"}
              /\ \A k \in Categories : ~HasRead(k, FALSE))
                 => \A k \in Categories : k \in warm \/ HasRead(k, TRUE)
          /\ \A i, j \in DOMAIN calls :
                 (/\ calls[i].to = "graph" /\ calls[i].op # "run_cypher"
                  /\ calls[j].op \in {"build_and_run_query", "call_llm_for_answer",
                                      "call_llm_for_answer_no_kg"})
                     => i < j
          /\ \A k \in Categories :
                 HasRead(k, FALSE) =>
                     /\ pc = "done" /\ resp = Surface("VocabularyError")
                     /\ resp.status = 500 /\ resp.answer = <<>>
                     /\ \A i \in DOMAIN calls :
                            /\ calls[i].op \notin {"build_and_run_query", "run_cypher",
                                                   "call_llm_for_answer",
                                                   "call_llm_for_answer_no_kg"}
                            /\ calls[i].to = "llm" => calls[i].op = "parse"
                     /\ ~cache[k].filled)
    /\ [][\A k \in Categories :
              (HasRead(k, FALSE) /\ nreq' = nreq + 1) => k \notin warm']_vars

\* a second request, with use_kg false and no mention at all, found the
\* points not cached, read them, and ended with the server error when the
\* read failed
C30_Witness ==
    /\ nreq = 2 /\ pc = "done" /\ resp.status = 500
    /\ req.use_kg = "false"
    /\ parsed.diseases = <<>> /\ parsed.combos = <<>> /\ parsed.points = <<>>
    /\ warm = {"diseases"}
    /\ \E i \in DOMAIN calls : calls[i] = GraphCall("get_all_combos", TRUE)
    /\ \E i \in DOMAIN calls : calls[i] = GraphCall("get_all_points", FALSE)
    /\ ~cache["points"].filled

(***************************************************************************)
(* Claims on the vocabulary cache                                          *)
(***************************************************************************)
\* C16 as stated: under any interleaving of concurrent requests, the
\* vocabulary of each category is read from the graph store at most once in
\* the life of the process.
C16_VocabularyReadOnce ==
    \A k \in Categories : reads[k] <= 1

====
